---- MODULE Spec2Model ----
(***************************************************************************)
(* Model of the Sonic Spinball auto splitter (src/src/lib.rs).             *)
(*                                                                         *)
(* The program is one entry point, update(), called once per tick by the    *)
(* host.  It owns the static AUTOSPLITTER (settings + five watchers), reads *)
(* six fields of the emulated game's memory, asks the host's timer for its  *)
(* phase and sends it Start / Split / Reset.                               *)
(*                                                                         *)
(* An Option is modelled as a sequence of length at most one: None is <<>>  *)
(* and Some(x) is <<x>>.  A memory read that fails is None.                 *)
(***************************************************************************)
EXTENDS Integers, Sequences, FiniteSets, TLC

VARIABLES
    settings,     \* AUTOSPLITTER.settings : Option<Settings>
    watchers,     \* AUTOSPLITTER.watchers : the five Watcher pairs
    timer,        \* the host timer's phase (external)
    emitted,      \* the signals the last tick sent to the timer, in order
    queried,      \* what the three timer::state() calls of the last tick returned
    reads,        \* the last tick's inputs: attachment probe and raw readings
    nregister,    \* how many times Settings::register has been called
    lock,         \* the Mutex around AUTOSPLITTER: None, or Some(holder)
    inv           \* each host thread's invocation of update(): where it is

vars == <<settings, watchers, timer, emitted, queried, reads, nregister, lock, inv>>

----------------------------------------------------------------------------
(* Bounds of the explored inputs *)

MaxPhase == 7
MaxArea == 4
MaxSub == 3
MaxTimeout == 11
MaxTrigger == 4
MaxSelection == 16
NThreads == 2

----------------------------------------------------------------------------
(* Options *)

None == <<>>

Some(x) == <<x>>

Opt(S) == {None} \cup {Some(v) : v \in S}

unwrap_or_default(r) == IF r = None THEN 0 ELSE r[1]

----------------------------------------------------------------------------
(* Levels, Settings *)

Levels ==
    {"ToxicCaves", "Bonus1", "LavaPowerHouse", "Bonus2", "TheMachine",
     "Bonus3", "TheShowdown"}

Flags ==
    {"start", "reset", "toxic_caves", "bonus_1", "lava_powerhouse",
     "bonus_2", "the_machine", "bonus_3", "the_showdown"}

\* every toggle at its default
DefaultSettings == [f \in Flags |-> TRUE]

\* what Settings::register can return: the user's stored choice per toggle
SettingsWithout(off) == [f \in Flags |-> f \notin off]

TimerState == {"NotRunning", "Running", "Paused"}

----------------------------------------------------------------------------
(* asr::watcher::Watcher *)

Pair(o, c) == [old |-> o, current |-> c]

Watcher_new == None

\* Watcher::update(Option<T>): a missing value leaves the pair as it is
Watcher_update(pair, value) ==
    IF value = None THEN pair
    ELSE IF pair = None THEN Some(Pair(value[1], value[1]))
    ELSE Some(Pair(pair[1].current, value[1]))

\* Watcher::update_infallible(T)
Watcher_update_infallible(pair, value) ==
    IF pair = None THEN Some(Pair(value, value))
    ELSE Some(Pair(pair[1].current, value))

----------------------------------------------------------------------------
(* State::update *)

current_level(level_1, level_2, state_current) ==
    CASE level_1 = 1 ->
           (IF level_2 \in {1, 2}
            THEN (IF state_current = 6 THEN "Bonus1" ELSE "LavaPowerHouse")
            ELSE "LavaPowerHouse")
      [] level_1 = 2 ->
           (IF level_2 \in {1, 2}
            THEN (IF state_current = 6 THEN "Bonus2" ELSE "TheMachine")
            ELSE "TheMachine")
      [] level_1 = 3 ->
           (IF level_2 \in {1, 2}
            THEN (IF state_current = 6 THEN "Bonus3" ELSE "TheShowdown")
            ELSE "TheShowdown")
      [] OTHER -> "ToxicCaves"

\* variant: the raw selection byte is recorded as read
menu_selection_value_raw(pair, temp_menu_selection) == temp_menu_selection

menu_selection_value(pair, temp_menu_selection) ==
    IF temp_menu_selection \in {1, 2, 15} THEN temp_menu_selection
    ELSE IF pair # None THEN pair[1].current ELSE 0

\* variant: the level is classified with the run phase of the previous tick
State_update_stale_phase(w, rd) ==
    LET state == Watcher_update_infallible(w.state, unwrap_or_default(rd.state))
        level_1 == unwrap_or_default(rd.level_1)
        level_2 == unwrap_or_default(rd.level_2)
        level == current_level(level_1, level_2, state[1].old)
        temp_menu_selection == unwrap_or_default(rd.temp_menu_selection)
    IN  [state          |-> state,
         levelid        |-> Watcher_update_infallible(w.levelid, level),
         menu_timeout   |-> Watcher_update(w.menu_timeout, rd.menu_timeout),
         menu_trigger   |-> Watcher_update(w.menu_trigger, rd.menu_trigger),
         menu_selection |->
             Watcher_update_infallible(w.menu_selection,
                 menu_selection_value(w.menu_selection, temp_menu_selection))]

\* variant: the two fallible fields are defaulted like the others
State_update_all_infallible(w, rd) ==
    LET state == Watcher_update_infallible(w.state, unwrap_or_default(rd.state))
        level_1 == unwrap_or_default(rd.level_1)
        level_2 == unwrap_or_default(rd.level_2)
        level == current_level(level_1, level_2, state[1].current)
        temp_menu_selection == unwrap_or_default(rd.temp_menu_selection)
    IN  [state          |-> state,
         levelid        |-> Watcher_update_infallible(w.levelid, level),
         menu_timeout   |->
             Watcher_update_infallible(w.menu_timeout,
                                       unwrap_or_default(rd.menu_timeout)),
         menu_trigger   |->
             Watcher_update_infallible(w.menu_trigger,
                                       unwrap_or_default(rd.menu_trigger)),
         menu_selection |->
             Watcher_update_infallible(w.menu_selection,
                 menu_selection_value(w.menu_selection, temp_menu_selection))]

\* variant: the run phase is read fallibly, like the menu fields
State_update_fallible_phase(w, rd) ==
    LET state == Watcher_update(w.state, rd.state)
        level_1 == unwrap_or_default(rd.level_1)
        level_2 == unwrap_or_default(rd.level_2)
        level == current_level(level_1, level_2, IF state = None THEN 0 ELSE state[1].current)
        temp_menu_selection == unwrap_or_default(rd.temp_menu_selection)
    IN  [state          |-> state,
         levelid        |-> Watcher_update_infallible(w.levelid, level),
         menu_timeout   |-> Watcher_update(w.menu_timeout, rd.menu_timeout),
         menu_trigger   |-> Watcher_update(w.menu_trigger, rd.menu_trigger),
         menu_selection |->
             Watcher_update_infallible(w.menu_selection,
                 menu_selection_value(w.menu_selection, temp_menu_selection))]

\* variant: the run-phase watcher starts from a zero history
State_update_zero_history(w, rd) ==
    LET state == Watcher_update_infallible(IF w.state = None THEN Some(Pair(0, 0))
                                              ELSE w.state,
                                              unwrap_or_default(rd.state))
        level_1 == unwrap_or_default(rd.level_1)
        level_2 == unwrap_or_default(rd.level_2)
        level == current_level(level_1, level_2, state[1].current)
        temp_menu_selection == unwrap_or_default(rd.temp_menu_selection)
    IN  [state          |-> state,
         levelid        |-> Watcher_update_infallible(w.levelid, level),
         menu_timeout   |-> Watcher_update(w.menu_timeout, rd.menu_timeout),
         menu_trigger   |-> Watcher_update(w.menu_trigger, rd.menu_trigger),
         menu_selection |->
             Watcher_update_infallible(w.menu_selection,
                 menu_selection_value(w.menu_selection, temp_menu_selection))]

State_update(w, rd) ==
    LET state == Watcher_update_infallible(w.state, unwrap_or_default(rd.state))
        level_1 == unwrap_or_default(rd.level_1)
        level_2 == unwrap_or_default(rd.level_2)
        level == current_level(level_1, level_2, state[1].current)
        temp_menu_selection == unwrap_or_default(rd.temp_menu_selection)
    IN  [state          |-> state,
         levelid        |-> Watcher_update_infallible(w.levelid, level),
         menu_timeout   |-> Watcher_update(w.menu_timeout, rd.menu_timeout),
         menu_trigger   |-> Watcher_update(w.menu_trigger, rd.menu_trigger),
         menu_selection |->
             Watcher_update_infallible(w.menu_selection,
                 menu_selection_value(w.menu_selection, temp_menu_selection))]

----------------------------------------------------------------------------
(* State::start, State::split, State::reset; self = [settings, watchers] *)

\* variant: the trigger need not have left the armed value
State_start_level_triggered(self) ==
    IF self.settings = None THEN FALSE
    ELSE IF ~self.settings[1].start THEN FALSE
    ELSE IF self.watchers.menu_timeout = None THEN FALSE
    ELSE IF self.watchers.menu_selection = None THEN FALSE
    ELSE IF self.watchers.menu_trigger = None THEN FALSE
    ELSE IF self.watchers.state = None THEN FALSE
    ELSE LET menu_timeout == self.watchers.menu_timeout[1]
             menu_selection == self.watchers.menu_selection[1]
             menu_trigger == self.watchers.menu_trigger[1]
             state == self.watchers.state[1]
         IN  /\ (menu_selection.old = 15 \/ menu_selection.old = 1)
             /\ state.current = 0
             /\ menu_timeout.old > 10
             /\ menu_trigger.old = 3
             /\ menu_trigger.current <= 3

\* variant: a menu-timeout that was never read does not hold start() back
State_start_unprimed_timeout(self) ==
    IF self.settings = None THEN FALSE
    ELSE IF ~self.settings[1].start THEN FALSE
    ELSE IF self.watchers.menu_selection = None THEN FALSE
    ELSE IF self.watchers.menu_trigger = None THEN FALSE
    ELSE IF self.watchers.state = None THEN FALSE
    ELSE LET menu_selection == self.watchers.menu_selection[1]
             menu_trigger == self.watchers.menu_trigger[1]
             state == self.watchers.state[1]
         IN  /\ (menu_selection.old = 15 \/ menu_selection.old = 1)
             /\ state.current = 0
             /\ (self.watchers.menu_timeout = None
                   \/ self.watchers.menu_timeout[1].old > 10)
             /\ menu_trigger.old = 3
             /\ menu_trigger.current < 3

State_start(self) ==
    IF self.settings = None THEN FALSE
    ELSE IF ~self.settings[1].start THEN FALSE
    ELSE IF self.watchers.menu_timeout = None THEN FALSE
    ELSE IF self.watchers.menu_selection = None THEN FALSE
    ELSE IF self.watchers.menu_trigger = None THEN FALSE
    ELSE IF self.watchers.state = None THEN FALSE
    ELSE LET menu_timeout == self.watchers.menu_timeout[1]
             menu_selection == self.watchers.menu_selection[1]
             menu_trigger == self.watchers.menu_trigger[1]
             state == self.watchers.state[1]
         IN  /\ (menu_selection.old = 15 \/ menu_selection.old = 1)
             /\ state.current = 0
             /\ menu_timeout.old > 10
             /\ menu_trigger.old = 3
             /\ menu_trigger.current < 3

\* variant: leaving Toxic Caves is recognised by the stage after its bonus
State_split_skips_bonus(self) ==
    IF self.settings = None THEN FALSE
    ELSE IF self.watchers.levelid = None THEN FALSE
    ELSE IF self.watchers.state = None THEN FALSE
    ELSE LET s == self.settings[1]
             level == self.watchers.levelid[1]
             state == self.watchers.state[1]
         IN  CASE level.old = "ToxicCaves" ->
                    s.toxic_caves /\ level.current = "LavaPowerHouse"
               [] level.old = "Bonus1" ->
                    s.bonus_1 /\ level.current = "LavaPowerHouse"
               [] level.old = "LavaPowerHouse" ->
                    s.lava_powerhouse /\ level.current = "Bonus2"
               [] level.old = "Bonus2" ->
                    s.bonus_2 /\ level.current = "TheMachine"
               [] level.old = "TheMachine" ->
                    s.the_machine /\ level.current = "Bonus3"
               [] level.old = "Bonus3" ->
                    s.bonus_3 /\ level.current = "TheShowdown"
               [] level.old = "TheShowdown" ->
                    s.the_showdown /\ state.old = 2 /\ state.current = 4

\* variant: the last split also asks that the level still be The Showdown
State_split_showdown_level(self) ==
    IF self.settings = None THEN FALSE
    ELSE IF self.watchers.levelid = None THEN FALSE
    ELSE IF self.watchers.state = None THEN FALSE
    ELSE LET s == self.settings[1]
             level == self.watchers.levelid[1]
             state == self.watchers.state[1]
         IN  CASE level.old = "ToxicCaves" ->
                    s.toxic_caves /\ level.current = "Bonus1"
               [] level.old = "Bonus1" ->
                    s.bonus_1 /\ level.current = "LavaPowerHouse"
               [] level.old = "LavaPowerHouse" ->
                    s.lava_powerhouse /\ level.current = "Bonus2"
               [] level.old = "Bonus2" ->
                    s.bonus_2 /\ level.current = "TheMachine"
               [] level.old = "TheMachine" ->
                    s.the_machine /\ level.current = "Bonus3"
               [] level.old = "Bonus3" ->
                    s.bonus_3 /\ level.current = "TheShowdown"
               [] level.old = "TheShowdown" ->
                    /\ s.the_showdown
                    /\ level.current = "TheShowdown"
                    /\ state.old = 2 /\ state.current = 4

\* variant: any change of level out of the first bonus stage splits
State_split_any_change(self) ==
    IF self.settings = None THEN FALSE
    ELSE IF self.watchers.levelid = None THEN FALSE
    ELSE IF self.watchers.state = None THEN FALSE
    ELSE LET s == self.settings[1]
             level == self.watchers.levelid[1]
             state == self.watchers.state[1]
         IN  CASE level.old = "ToxicCaves" ->
                    s.toxic_caves /\ level.current = "Bonus1"
               [] level.old = "Bonus1" ->
                    s.bonus_1 /\ level.current # "Bonus1"
               [] level.old = "LavaPowerHouse" ->
                    s.lava_powerhouse /\ level.current = "Bonus2"
               [] level.old = "Bonus2" ->
                    s.bonus_2 /\ level.current = "TheMachine"
               [] level.old = "TheMachine" ->
                    s.the_machine /\ level.current = "Bonus3"
               [] level.old = "Bonus3" ->
                    s.bonus_3 /\ level.current = "TheShowdown"
               [] level.old = "TheShowdown" ->
                    s.the_showdown /\ state.old = 2 /\ state.current = 4

State_split(self) ==
    IF self.settings = None THEN FALSE
    ELSE IF self.watchers.levelid = None THEN FALSE
    ELSE IF self.watchers.state = None THEN FALSE
    ELSE LET s == self.settings[1]
             level == self.watchers.levelid[1]
             state == self.watchers.state[1]
         IN  CASE level.old = "ToxicCaves" ->
                    s.toxic_caves /\ level.current = "Bonus1"
               [] level.old = "Bonus1" ->
                    s.bonus_1 /\ level.current = "LavaPowerHouse"
               [] level.old = "LavaPowerHouse" ->
                    s.lava_powerhouse /\ level.current = "Bonus2"
               [] level.old = "Bonus2" ->
                    s.bonus_2 /\ level.current = "TheMachine"
               [] level.old = "TheMachine" ->
                    s.the_machine /\ level.current = "Bonus3"
               [] level.old = "Bonus3" ->
                    s.bonus_3 /\ level.current = "TheShowdown"
               [] level.old = "TheShowdown" ->
                    s.the_showdown /\ state.old = 2 /\ state.current = 4

\* variant: the upper end of the in-run phases is excluded
State_reset_below_six(self) ==
    IF self.settings = None THEN FALSE
    ELSE IF ~self.settings[1].reset THEN FALSE
    ELSE IF self.watchers.state = None THEN FALSE
    ELSE LET state == self.watchers.state[1]
         IN  state.old > 0 /\ state.old < 6 /\ state.current = 0

State_reset(self) ==
    IF self.settings = None THEN FALSE
    ELSE IF ~self.settings[1].reset THEN FALSE
    ELSE IF self.watchers.state = None THEN FALSE
    ELSE LET state == self.watchers.state[1]
         IN  state.old > 0 /\ state.old <= 6 /\ state.current = 0

----------------------------------------------------------------------------
(* The host timer *)

NoMove == "-"

\* the timer's user acting between two steps of the tick (or not)
UserMove(phase, u) == IF u = NoMove THEN phase ELSE u

\* the timer reacting to the signals it is sent
TimerReact(phase, signals) ==
    IF signals = <<"Reset">> THEN "NotRunning"
    ELSE IF signals = <<"Start">> /\ phase = "NotRunning" THEN "Running"
    ELSE phase

----------------------------------------------------------------------------
(* update(): the tick entry point *)

\* variant: split() is consulted before reset()
RunningBranch_split_first(self, q1, q2) ==
    IF q1 = "Running" \/ q2 = "Paused"
    THEN IF State_split(self) THEN <<"Split">>
         ELSE IF State_reset(self) THEN <<"Reset">>
         ELSE <<>>
    ELSE <<>>

\* variant: reset() and split() are two independent ifs
RunningBranch_both(self, q1, q2) ==
    IF q1 = "Running" \/ q2 = "Paused"
    THEN (IF State_reset(self) THEN <<"Reset">> ELSE <<>>)
         \o (IF State_split(self) THEN <<"Split">> ELSE <<>>)
    ELSE <<>>

\* lines 177-196: the Running / Paused branch
RunningBranch(self, q1, q2) ==
    IF q1 = "Running" \/ q2 = "Paused"
    THEN IF State_reset(self) THEN <<"Reset">>
         ELSE IF State_split(self) THEN <<"Split">>
         ELSE <<>>
    ELSE <<>>

\* variant: start() is consulted whatever the timer's phase
NotRunningBranch_ungated(self, q3) ==
    IF State_start(self) THEN <<"Start">> ELSE <<>>

\* lines 198-211: the NotRunning branch
NotRunningBranch(self, q3) ==
    IF q3 = "NotRunning"
    THEN IF State_start(self) THEN <<"Start">> ELSE <<>>
    ELSE <<>>

\* lines 164-166: genesis::update() is false, the tick returns
update_return(usr) ==
    /\ watchers' = watchers
    /\ timer' = UserMove(UserMove(UserMove(timer, usr[1]), usr[2]), usr[3])
    /\ emitted' = <<>>
    /\ queried' = <<NoMove, NoMove, NoMove>>

\* lines 169-211: refresh the watchers, then the two timer branches.  The
\* second timer::state() call of line 177 is made only when the first did not
\* return Running.
update_run(settings1, rd, usr) ==
    LET w == State_update(watchers, rd)
        self == [settings |-> settings1, watchers |-> w]
        q1 == UserMove(timer, usr[1])
        p1 == UserMove(q1, usr[2])
        q2 == IF q1 = "Running" THEN NoMove ELSE p1
        sig1 == RunningBranch(self, q1, q2)
        q3 == UserMove(TimerReact(p1, sig1), usr[3])
        sig2 == NotRunningBranch(self, q3)
    IN  /\ watchers' = w
        /\ timer' = TimerReact(q3, sig2)
        /\ emitted' = sig1 \o sig2
        /\ queried' = <<q1, q2, q3>>

\* variant: the settings are registered anew by every tick
get_or_insert_with_every_tick(registered) ==
    /\ settings' = Some(registered)
    /\ nregister' = nregister + 1

\* lines 156-159: settings.get_or_insert_with(Settings::register)
get_or_insert_with(registered) ==
    /\ settings' = IF settings = None THEN Some(registered) ELSE settings
    /\ nregister' = nregister + (IF settings = None THEN 1 ELSE 0)

\* variant: the early return of line 165 is missing
update_no_return(attached, registered, rd, usr) ==
    /\ get_or_insert_with(registered)
    /\ reads' = [attached |-> attached, rd |-> rd]
    /\ update_run(settings', rd, usr)

update(attached, registered, rd, usr) ==
    /\ get_or_insert_with(registered)
    /\ reads' = [attached |-> attached, rd |-> rd]
    /\ IF ~attached
       THEN update_return(usr)
       ELSE update_run(settings', rd, usr)

----------------------------------------------------------------------------
(* Initial state: the static AUTOSPLITTER, the timer in any phase *)

NoReads ==
    [state |-> None, level_1 |-> None, level_2 |-> None, menu_timeout |-> None,
     menu_trigger |-> None, temp_menu_selection |-> None]

AUTOSPLITTER ==
    /\ settings = None
    /\ watchers = [levelid |-> Watcher_new, state |-> Watcher_new,
                   menu_timeout |-> Watcher_new, menu_trigger |-> Watcher_new,
                   menu_selection |-> Watcher_new]

Threads == 1..NThreads

\* a thread that is not inside update()
Idle == [pc |-> "idle", snap |-> None]

InitWith(phases) ==
    /\ AUTOSPLITTER
    /\ lock = None
    /\ inv = [t \in Threads |-> Idle]
    /\ timer \in phases
    /\ emitted = <<>>
    /\ queried = <<NoMove, NoMove, NoMove>>
    /\ reads = [attached |-> FALSE, rd |-> NoReads]
    /\ nregister = 0

Init == InitWith(TimerState)

\* the timer idle when the auto splitter is loaded
InitIdle == InitWith({"NotRunning"})

----------------------------------------------------------------------------
(* Inputs *)

NoUser == <<NoMove, NoMove, NoMove>>

\* the user changes the timer's phase at most once during a tick, between two
\* of its timer::state() calls
UserMoves ==
    {NoUser} \cup
    {[i \in 1..3 |-> IF i = k THEN p ELSE NoMove] : k \in 2..3, p \in TimerState}

\* what register returns when it is called; irrelevant once settings is Some
Registered(S) == IF settings = None THEN S ELSE {settings[1]}

TickSettings ==
    {SettingsWithout(off) : off \in {{}, {"start"}, {"reset"}, {"toxic_caves"}}}

TickReads ==
    [state : Opt({6}), level_1 : Opt({1}), level_2 : {Some(1)},
     menu_timeout : {Some(MaxTimeout)}, menu_trigger : Opt({2, 3}),
     temp_menu_selection : {Some(1)}]

Detached(S, U) ==
    \E registered \in Registered(S), usr \in U :
        /\ update(FALSE, registered, NoReads, usr)
        /\ UNCHANGED <<lock, inv>>

Attached(S, R, U) ==
    \E registered \in Registered(S), rd \in R, usr \in U :
        /\ update(TRUE, registered, rd, usr)
        /\ UNCHANGED <<lock, inv>>

\* Ticks with the timer's user active: few readings, enough to make each of
\* start(), split() and reset() true and false.
Next ==
    \/ Detached(TickSettings, UserMoves)
    \/ Attached(TickSettings, TickReads, UserMoves)

Spec == Init /\ [][Next]_vars

SegmentFlags == Flags \ {"start", "reset"}

\* Ticks over the run-phase and level readings, the menu fields unreadable.
SplitSettings ==
    {DefaultSettings} \cup {SettingsWithout({f}) : f \in SegmentFlags \cup {"reset"}}

SplitReads ==
    [state : Opt({2, 4} \cup (6..MaxPhase)), level_1 : Opt(1..3),
     level_2 : {Some(1), Some(MaxSub)},
     menu_timeout : {None}, menu_trigger : {None}, temp_menu_selection : {None}]

NextSplit ==
    \/ Detached(SplitSettings, {NoUser})
    \/ Attached(SplitSettings, SplitReads, {NoUser})

SpecSplit == InitIdle /\ [][NextSplit]_vars

\* Ticks over every area and sub-area reading.
ClassifyReads ==
    [state : Opt(6..MaxPhase), level_1 : Opt(0..MaxArea), level_2 : Opt(0..MaxSub),
     menu_timeout : {None}, menu_trigger : {None}, temp_menu_selection : {None}]

NextClassify ==
    \/ Detached({DefaultSettings}, {NoUser})
    \/ Attached({DefaultSettings}, ClassifyReads, {NoUser})

SpecClassify == InitIdle /\ [][NextClassify]_vars

\* Ticks over the four fields start() reads, each read succeeding except the
\* trigger's.
MenuSettings == {DefaultSettings, SettingsWithout({"start"})}

MenuReads ==
    [state : {Some(0), Some(2)}, level_1 : {None}, level_2 : {None},
     menu_timeout : {Some(10), Some(MaxTimeout)},
     menu_trigger : Opt({2, 3, MaxTrigger}),
     temp_menu_selection : {Some(1), Some(2), Some(15)}]

NextMenu ==
    \/ Detached(MenuSettings, {NoUser})
    \/ Attached(MenuSettings, MenuReads, {NoUser})

SpecMenu == InitIdle /\ [][NextMenu]_vars

\* Ticks over successful and failed reads of the two fallible fields and of
\* the run phase.
WatcherReads ==
    [state : Opt({2}), level_1 : {None}, level_2 : {None},
     menu_timeout : Opt(10..MaxTimeout), menu_trigger : Opt(2..MaxTrigger),
     temp_menu_selection : {None}]

NextWatcher ==
    \/ Detached({DefaultSettings}, {NoUser})
    \/ Attached({DefaultSettings}, WatcherReads, {NoUser})

SpecWatcher == InitIdle /\ [][NextWatcher]_vars

\* Ticks in which the two fallible menu fields may never have been read while
\* everything else start() asks for is in place.
PrimingReads ==
    [state : Opt({2}), level_1 : Opt({1}), level_2 : {Some(1)},
     menu_timeout : Opt({MaxTimeout}), menu_trigger : Opt({2, 3}),
     temp_menu_selection : Opt({1})]

NextPriming ==
    \/ Detached({DefaultSettings}, {NoUser})
    \/ Attached({DefaultSettings}, PrimingReads, {NoUser})

SpecPriming == Init /\ [][NextPriming]_vars

\* Ticks over every value of the menu-selection byte.
SelectionReads ==
    [state : Opt({2}), level_1 : {None}, level_2 : {None},
     menu_timeout : {None}, menu_trigger : {None},
     temp_menu_selection : Opt(0..MaxSelection)]

NextSelection ==
    \/ Detached({DefaultSettings}, {NoUser})
    \/ Attached({DefaultSettings}, SelectionReads, {NoUser})

SpecSelection == InitIdle /\ [][NextSelection]_vars

----------------------------------------------------------------------------
(* update() statement by statement, called by several host threads *)

Inside ==
    {"settings", "probe", "state", "level", "timeout", "trigger", "selection",
     "running", "notrunning"}

Goto(t, pc) == inv' = [inv EXCEPT ![t].pc = pc]

Record(field, value) == reads' = [reads EXCEPT !.rd[field] = value]

\* line 154: the host calls update() on thread t
Call(t) ==
    /\ inv[t].pc = "idle"
    /\ Goto(t, "lock")
    /\ UNCHANGED <<settings, watchers, timer, emitted, queried, reads,
                   nregister, lock>>

\* line 156: AUTOSPLITTER.lock() returns once the lock is free; the guard
\* lives until update() returns
Acquire(t) ==
    /\ inv[t].pc = "lock"
    /\ lock = None
    /\ lock' = Some(t)
    /\ inv' = [inv EXCEPT ![t] =
                 [pc |-> "settings",
                  snap |-> Some([settings |-> settings, watchers |-> watchers,
                                 timer |-> timer])]]
    /\ emitted' = <<>>
    /\ queried' = <<NoMove, NoMove, NoMove>>
    /\ reads' = [attached |-> FALSE, rd |-> NoReads]
    /\ UNCHANGED <<settings, watchers, timer, nregister>>

\* the guard is dropped and update() returns
Return(t) ==
    /\ lock' = None
    /\ inv' = [inv EXCEPT ![t] = Idle]

\* line 159
Register(t) ==
    /\ inv[t].pc = "settings"
    /\ \E registered \in Registered({DefaultSettings}) :
           get_or_insert_with(registered)
    /\ Goto(t, "probe")
    /\ UNCHANGED <<watchers, timer, emitted, queried, reads, lock>>

\* variant: the early return leaves the lock taken
Probe_return_holding(t) ==
    /\ inv[t].pc = "probe"
    /\ \E attached \in BOOLEAN :
           /\ reads' = [reads EXCEPT !.attached = attached]
           /\ IF attached
              THEN Goto(t, "state") /\ UNCHANGED lock
              ELSE inv' = [inv EXCEPT ![t] = Idle] /\ UNCHANGED lock
    /\ UNCHANGED <<settings, watchers, timer, emitted, queried, nregister>>

\* lines 164-166: genesis::update(), and the early return
Probe(t) ==
    /\ inv[t].pc = "probe"
    /\ \E attached \in BOOLEAN :
           /\ reads' = [reads EXCEPT !.attached = attached]
           /\ IF attached
              THEN Goto(t, "state") /\ UNCHANGED lock
              ELSE Return(t)
    /\ UNCHANGED <<settings, watchers, timer, emitted, queried, nregister>>

\* line 70
ReadState(t) ==
    /\ inv[t].pc = "state"
    /\ \E r \in Opt({6}) :
           /\ Record("state", r)
           /\ watchers' =
                 [watchers EXCEPT !.state =
                     Watcher_update_infallible(@, unwrap_or_default(r))]
    /\ Goto(t, "level")
    /\ UNCHANGED <<settings, timer, emitted, queried, nregister, lock>>

\* lines 73-92
ReadLevel(t) ==
    /\ inv[t].pc = "level"
    /\ \E r1 \in Opt({1}), r2 \in {Some(1)} :
           /\ reads' = [reads EXCEPT !.rd.level_1 = r1, !.rd.level_2 = r2]
           /\ watchers' =
                 [watchers EXCEPT !.levelid =
                     Watcher_update_infallible(@,
                         current_level(unwrap_or_default(r1),
                                       unwrap_or_default(r2),
                                       watchers.state[1].current))]
    /\ Goto(t, "timeout")
    /\ UNCHANGED <<settings, timer, emitted, queried, nregister, lock>>

\* line 95
ReadTimeout(t) ==
    /\ inv[t].pc = "timeout"
    /\ \E r \in {Some(MaxTimeout)} :
           /\ Record("menu_timeout", r)
           /\ watchers' =
                 [watchers EXCEPT !.menu_timeout = Watcher_update(@, r)]
    /\ Goto(t, "trigger")
    /\ UNCHANGED <<settings, timer, emitted, queried, nregister, lock>>

\* line 96
ReadTrigger(t) ==
    /\ inv[t].pc = "trigger"
    /\ \E r \in {Some(2), Some(3)} :
           /\ Record("menu_trigger", r)
           /\ watchers' =
                 [watchers EXCEPT !.menu_trigger = Watcher_update(@, r)]
    /\ Goto(t, "selection")
    /\ UNCHANGED <<settings, timer, emitted, queried, nregister, lock>>

\* lines 98-103
ReadSelection(t) ==
    /\ inv[t].pc = "selection"
    /\ \E r \in {Some(1)} :
           /\ Record("temp_menu_selection", r)
           /\ watchers' =
                 [watchers EXCEPT !.menu_selection =
                     Watcher_update_infallible(@,
                         menu_selection_value(@, unwrap_or_default(r)))]
    /\ Goto(t, "running")
    /\ UNCHANGED <<settings, timer, emitted, queried, nregister, lock>>

\* lines 177-196
RunningStep(t) ==
    /\ inv[t].pc = "running"
    /\ LET self == [settings |-> settings, watchers |-> watchers]
           q1 == timer
           q2 == IF q1 = "Running" THEN NoMove ELSE timer
           sig1 == RunningBranch(self, q1, q2)
       IN  /\ timer' = TimerReact(timer, sig1)
           /\ emitted' = sig1
           /\ queried' = <<q1, q2, NoMove>>
    /\ Goto(t, "notrunning")
    /\ UNCHANGED <<settings, watchers, reads, nregister, lock>>

\* lines 198-212
NotRunningStep(t) ==
    /\ inv[t].pc = "notrunning"
    /\ LET self == [settings |-> settings, watchers |-> watchers]
           sig2 == NotRunningBranch(self, timer)
       IN  /\ timer' = TimerReact(timer, sig2)
           /\ emitted' = emitted \o sig2
           /\ queried' = [queried EXCEPT ![3] = timer]
    /\ Return(t)
    /\ UNCHANGED <<settings, watchers, reads, nregister>>

\* the statements of update() after the lock is taken
Body(t) ==
    \/ Register(t)
    \/ Probe(t)
    \/ ReadState(t)
    \/ ReadLevel(t)
    \/ ReadTimeout(t)
    \/ ReadTrigger(t)
    \/ ReadSelection(t)
    \/ RunningStep(t)
    \/ NotRunningStep(t)

NextConcurrent ==
    \/ \E t \in Threads : Call(t)
    \/ \E t \in Threads : Acquire(t)
    \/ \E t \in Threads : Body(t)

\* update() is straight-line code that polls and returns: a thread that holds
\* the lock keeps running
SpecConcurrent ==
    InitIdle /\ [][NextConcurrent]_vars /\ WF_vars(\E t \in Threads : Body(t))

----------------------------------------------------------------------------
(* The tick state as the predicates see it, and the last tick's record *)

Self == [settings |-> settings, watchers |-> watchers]

Sent(sig) == \E i \in 1..Len(emitted) : emitted[i] = sig

\* the condition of line 177 as the last tick evaluated it
RanRunningBranch == queried[1] = "Running" \/ queried[2] = "Paused"

\* the last tick saw the timer move only by the tick's own signals
Undisturbed ==
    /\ queried[2] \in {NoMove, queried[1]}
    /\ queried[3] =
         TimerReact(queried[1],
                    IF Len(emitted) > 0 /\ emitted[1] # "Start"
                    THEN <<emitted[1]>> ELSE <<>>)

----------------------------------------------------------------------------
(* Tick orchestration *)

\* C1 (as stated): a tick emits at most one of Start, Split, Reset, the timer
\* reacting at once to what it is sent and nobody else touching it.
C1_AtMostOneSignal ==
    (reads.attached /\ Undisturbed) => Len(emitted) <= 1

\* C1 (amended): a tick emits at most one of Split and Reset and at most one
\* Start, the Start last; left alone, the timer sees two signals in one tick
\* only as Reset followed by Start.
C1_SignalsPerTick ==
    /\ emitted \in {<<>>, <<"Start">>, <<"Split">>, <<"Reset">>,
                    <<"Reset", "Start">>, <<"Split", "Start">>}
    /\ Undisturbed => emitted # <<"Split", "Start">>

C1_Witness ==
    /\ reads.attached
    /\ Undisturbed
    /\ queried[1] = "Running"
    /\ emitted = <<"Reset", "Start">>

C3_GatedByFirstQuery ==
    (reads.attached /\ Undisturbed) =>
        /\ Sent("Start") => queried[1] = "NotRunning"
        /\ ~(RanRunningBranch /\ queried[3] = "NotRunning")

\* C3 (amended): each signal is gated by the timer::state() call that guards
\* it: Split and Reset by the calls of line 177 (the first returning Running
\* or the second Paused), Start by the call of line 198 returning NotRunning.
C3_GatedByOwnQuery ==
    /\ Sent("Start") => (reads.attached /\ queried[3] = "NotRunning")
    /\ (Sent("Split") \/ Sent("Reset")) => (reads.attached /\ RanRunningBranch)
    /\ Len(emitted) = 2 => (RanRunningBranch /\ queried[3] = "NotRunning")

C3_Witness ==
    /\ reads.attached
    /\ Undisturbed
    /\ queried[1] = "Paused"
    /\ queried[3] = "NotRunning"
    /\ Sent("Reset")
    /\ Sent("Start")

\* C4: a tick whose attachment probe fails leaves all five watchers as they
\* were, primed or not, and sends nothing, whatever the timer's phase.
C4_DetachedTickIsInert ==
    [][~reads'.attached => (watchers' = watchers /\ emitted' = <<>>)]_vars

\* a detached tick happened on a bank whose histories would have fired Reset
C4_Witness ==
    /\ ~reads.attached
    /\ emitted = <<>>
    /\ timer = "Running"
    /\ State_reset(Self)

----------------------------------------------------------------------------
(* The split table *)

Progression ==
    <<"ToxicCaves", "Bonus1", "LavaPowerHouse", "Bonus2", "TheMachine",
      "Bonus3", "TheShowdown">>

\* pair is one step forward along the progression
ForwardStep(pair) ==
    \E i \in 1..6 : pair.old = Progression[i] /\ pair.current = Progression[i + 1]

SegmentFlag(level) ==
    CASE level = "ToxicCaves" -> "toxic_caves"
      [] level = "Bonus1" -> "bonus_1"
      [] level = "LavaPowerHouse" -> "lava_powerhouse"
      [] level = "Bonus2" -> "bonus_2"
      [] level = "TheMachine" -> "the_machine"
      [] level = "Bonus3" -> "bonus_3"
      [] level = "TheShowdown" -> "the_showdown"

C6_SplitTable ==
    (settings # None /\ watchers.levelid # None /\ watchers.state # None) =>
        LET level == watchers.levelid[1]
            state == watchers.state[1]
            enabled == settings[1][SegmentFlag(level.old)]
        IN  State_split(Self) <=>
              IF level.old = "TheShowdown"
              THEN enabled /\ state.old = 2 /\ state.current = 4
              ELSE enabled /\ ForwardStep(level)

C6_Witness ==
    /\ watchers.levelid # None
    /\ watchers.levelid[1].old = "TheShowdown"
    /\ watchers.levelid[1].current # "TheShowdown"
    /\ State_split(Self)

\* C7: reset() is true exactly when auto-reset is enabled and the run-phase
\* pair is primed with old in 1..6 and current = 0.
C7_ResetIff ==
    State_reset(Self) <=>
        /\ settings # None
        /\ watchers.state # None
        /\ settings[1].reset
        /\ watchers.state[1].old \in 1..6
        /\ watchers.state[1].current = 0

C7_Witness ==
    /\ watchers.state # None
    /\ watchers.state[1] = Pair(6, 0)
    /\ State_reset(Self)

----------------------------------------------------------------------------
(* start() *)

\* C8: start() is true exactly when auto-start is enabled, the four pairs it
\* reads are primed, menu-selection.old is 1 or 15, run-phase.current is 0,
\* menu-timeout.old > 10, menu-trigger.old = 3 and menu-trigger.current < 3;
\* so never on a trigger value that stays put.
C8_StartIff ==
    /\ State_start(Self) <=>
          /\ settings # None
          /\ watchers.menu_timeout # None
          /\ watchers.menu_selection # None
          /\ watchers.menu_trigger # None
          /\ watchers.state # None
          /\ settings[1].start
          /\ watchers.menu_selection[1].old \in {1, 15}
          /\ watchers.state[1].current = 0
          /\ watchers.menu_timeout[1].old > 10
          /\ watchers.menu_trigger[1].old = 3
          /\ watchers.menu_trigger[1].current < 3
    /\ (watchers.menu_trigger # None
          /\ watchers.menu_trigger[1].old = watchers.menu_trigger[1].current)
        => ~State_start(Self)

C8_Witness ==
    /\ State_start(Self)
    /\ watchers.menu_selection[1].old = 15
    /\ watchers.menu_trigger[1] = Pair(3, 2)

----------------------------------------------------------------------------
(* The level classification *)

MainStage(area_id) ==
    CASE area_id = 1 -> "LavaPowerHouse"
      [] area_id = 2 -> "TheMachine"
      [] area_id = 3 -> "TheShowdown"

BonusStage(area_id) ==
    CASE area_id = 1 -> "Bonus1"
      [] area_id = 2 -> "Bonus2"
      [] area_id = 3 -> "Bonus3"

DecisionTable(area_id, sub_id, phase) ==
    IF area_id \in {1, 2, 3}
    THEN IF sub_id \in {1, 2} /\ phase = 6
         THEN BonusStage(area_id)
         ELSE MainStage(area_id)
    ELSE "ToxicCaves"

\* C9: after an attached tick level.current is the decision table's value for
\* the area, the sub-area and the run phase read in that same tick, a failed
\* read counting as 0; the run-phase pair already holds that tick's phase.
C9_LevelClassification ==
    reads.attached =>
        LET area_id == unwrap_or_default(reads.rd.level_1)
            sub_id == unwrap_or_default(reads.rd.level_2)
            phase == unwrap_or_default(reads.rd.state)
        IN  /\ watchers.state[1].current = phase
            /\ watchers.levelid[1].current = DecisionTable(area_id, sub_id, phase)
            /\ watchers.levelid[1].current \in Levels

\* the phase left 6 in the tick that read area 1, sub-area 1
C9_Witness ==
    /\ reads.attached
    /\ reads.rd.level_1 = Some(1)
    /\ reads.rd.level_2 = Some(1)
    /\ watchers.state[1].old = 6
    /\ watchers.state[1].current # 6
    /\ watchers.levelid[1].current = "LavaPowerHouse"

----------------------------------------------------------------------------
(* Watcher updates *)

\* what a watcher holds after update(Some(v)) or update_infallible(v)
Shifted(before, v) ==
    IF before = None THEN Some(Pair(v, v)) ELSE Some(Pair(before[1].current, v))

\* C10: in an attached tick a failed read leaves the menu-timeout and
\* menu-trigger pairs (or their unprimed state) as they were; a successful
\* read v, and the defaulted run-phase read, shift current into old and set
\* current to v, or establish old = current = v on an unprimed watcher.
C10_WatcherUpdate ==
    [][reads'.attached =>
         /\ \A f \in {"menu_timeout", "menu_trigger"} :
               watchers'[f] =
                 IF reads'.rd[f] = None THEN watchers[f]
                 ELSE Shifted(watchers[f], reads'.rd[f][1])
         /\ watchers'.state =
               Shifted(watchers.state, unwrap_or_default(reads'.rd.state))]_vars

\* a failed trigger read kept the pair of an earlier falling edge while a
\* successful timeout read shifted its pair
C10_Witness ==
    /\ reads.attached
    /\ reads.rd.menu_trigger = None
    /\ watchers.menu_trigger = Some(Pair(3, 2))
    /\ reads.rd.menu_timeout = Some(MaxTimeout)
    /\ watchers.menu_timeout = Some(Pair(10, MaxTimeout))

----------------------------------------------------------------------------
(* Cold start *)

Unprimed(names) == \E f \in names : watchers[f] = None

\* C11: each predicate is false, and is evaluated without touching a missing
\* pair, while the settings are not initialized or a watcher it reads is
\* unprimed; so Start is never sent before menu-timeout and menu-trigger have
\* each been read successfully.
C11_UnprimedIsFalse ==
    /\ (settings = None
          \/ Unprimed({"menu_timeout", "menu_selection", "menu_trigger", "state"}))
        => ~State_start(Self)
    /\ (settings = None \/ Unprimed({"levelid", "state"})) => ~State_split(Self)
    /\ (settings = None \/ Unprimed({"state"})) => ~State_reset(Self)
    /\ Sent("Start") => ~Unprimed({"menu_timeout", "menu_trigger"})

\* everything start() asks for is in place except a menu-timeout reading
C11_Witness ==
    /\ reads.attached
    /\ queried[3] = "NotRunning"
    /\ watchers.menu_timeout = None
    /\ watchers.menu_trigger = Some(Pair(3, 2))
    /\ watchers.menu_selection # None
    /\ watchers.menu_selection[1].old = 1
    /\ watchers.state[1].current = 0
    /\ settings[1].start
    /\ emitted = <<>>

----------------------------------------------------------------------------
(* The configuration *)

\* C13: Settings::register runs once, in the first tick, attached or not; from
\* then on the nine toggles keep their values and nothing registers again.
C13_RegisteredOnce ==
    [][/\ settings' # None
       /\ nregister' = 1
       /\ settings # None => (settings' = settings /\ nregister' = nregister)]_vars

\* a configuration other than the default survived attached ticks
C13_Witness ==
    /\ settings = Some(SettingsWithout({"reset"}))
    /\ nregister = 1
    /\ reads.attached
    /\ watchers.state # None
    /\ watchers.state[1].old # watchers.state[1].current

----------------------------------------------------------------------------
(* Scenario A *)

ScenarioA ==
    /\ settings # None
    /\ settings[1].reset
    /\ watchers.state = Some(Pair(6, 0))

\* C14 (as stated): with run-phase 6 -> 0 and auto-reset enabled, reset() is
\* true and split() is false, whatever the level pair and the segment flags.
C14_SplitIsFalse == ScenarioA => (State_reset(Self) /\ ~State_split(Self))

\* C14 (amended): with run-phase 6 -> 0 and auto-reset enabled, reset() is
\* true and no Split is sent in that tick: a tick that takes the Running /
\* Paused branch sends Reset first and does not consult split().
C14_ResetNoSplitSignal ==
    ScenarioA =>
        /\ State_reset(Self)
        /\ ~Sent("Split")
        /\ (reads.attached /\ RanRunningBranch) => emitted[1] = "Reset"

\* leaving the first bonus stage while the run phase falls from 6 to 0
C14_Witness ==
    /\ ScenarioA
    /\ reads.attached
    /\ watchers.levelid = Some(Pair("Bonus1", "LavaPowerHouse"))
    /\ settings[1].bonus_1
    /\ State_split(Self)
    /\ queried[1] = "Paused"
    /\ Sent("Reset")

----------------------------------------------------------------------------
(* Detached ticks and the tick state *)

\* C15 (as stated): a detached tick changes neither the settings nor the
\* watchers, the very first tick included.
C15_DetachedTickChangesNothing ==
    [][~reads'.attached => (settings' = settings /\ watchers' = watchers)]_vars

\* C15 (amended): a detached tick leaves the watchers as they are, and the
\* settings too once they exist; the very first tick registers the settings
\* even when it is detached.
C15_DetachedTickRegistersOnly ==
    [][~reads'.attached =>
         /\ watchers' = watchers
         /\ settings # None => settings' = settings
         /\ settings = None => (settings' # None /\ nregister' = 1)]_vars

\* only detached ticks so far: the settings exist, no watcher is primed
C15_Witness ==
    /\ ~reads.attached
    /\ settings # None
    /\ settings[1] # DefaultSettings
    /\ nregister = 1
    /\ \A f \in DOMAIN watchers : watchers[f] = None

----------------------------------------------------------------------------
(* Order of the derived level *)

Rank(level) == CHOOSE i \in 1..7 : Progression[i] = level

\* C16 (as stated): level.current is never earlier in the progression than
\* level.old.
C16_LevelMonotone ==
    watchers.levelid # None =>
        Rank(watchers.levelid[1].current) >= Rank(watchers.levelid[1].old)

\* C16 (amended): the derived level can fall back, and then split() is false
\* unless the level left is TheShowdown: for level.old in ToxicCaves..Bonus3
\* split() holds only on the pair whose current is the next level, so the
\* bank's single level pair satisfies at most the row of level.old.
C16_SplitOnlyOnNextLevel ==
    (watchers.levelid # None /\ State_split(Self)) =>
        \/ watchers.levelid[1].old = "TheShowdown"
        \/ Rank(watchers.levelid[1].current) = Rank(watchers.levelid[1].old) + 1

\* a failed area read put the level back from the first bonus stage
C16_Witness ==
    /\ reads.attached
    /\ reads.rd.level_1 = None
    /\ watchers.levelid = Some(Pair("Bonus1", "ToxicCaves"))
    /\ settings[1].bonus_1
    /\ ~State_split(Self)

----------------------------------------------------------------------------
(* Infallible watchers *)

Infallible == {"state", "levelid", "menu_selection"}

\* C17: every attached tick leaves run-phase, level and menu-selection primed,
\* whatever was read; a failed run-phase read records 0 as current with the
\* previous current as old, a failed area read classifies as area 0; and these
\* three watchers, once primed, stay primed.
C17_InfalliblePrimed ==
    [][/\ \A f \in Infallible : watchers[f] # None => watchers'[f] # None
       /\ reads'.attached =>
            /\ \A f \in Infallible : watchers'[f] # None
            /\ reads'.rd.state = None =>
                  watchers'.state = Shifted(watchers.state, 0)
            /\ reads'.rd.level_1 = None =>
                  watchers'.levelid[1].current = "ToxicCaves"]_vars

\* every read of the tick failed, the run phase having been 2
C17_Witness ==
    /\ reads.attached
    /\ reads.rd = NoReads
    /\ watchers.state = Some(Pair(2, 0))
    /\ watchers.levelid = Some(Pair("ToxicCaves", "ToxicCaves"))
    /\ watchers.menu_selection = Some(Pair(0, 0))

----------------------------------------------------------------------------
(* The sticky menu selection *)

Sticky == {1, 2, 15}

\* C18: the menu-selection pair only holds values of {0, 1, 2, 15}; a reading
\* of 1, 2 or 15 becomes current, any other reading or a failed read records
\* the previous current again (0 on an unprimed watcher); so a current other
\* than 0 never goes back to 0.
C18_StickySelection ==
    [][reads'.attached =>
         LET raw == unwrap_or_default(reads'.rd.temp_menu_selection)
             before == watchers.menu_selection
             after == watchers'.menu_selection[1]
             kept == IF before = None THEN 0 ELSE before[1].current
         IN  /\ after.old \in Sticky \cup {0}
             /\ after.current \in Sticky \cup {0}
             /\ raw \in Sticky => after.current = raw
             /\ raw \notin Sticky => after = Pair(kept, kept)
             /\ kept # 0 => after.current # 0]_vars

\* a failed read after a selection of 15
C18_Witness ==
    /\ reads.attached
    /\ reads.rd.temp_menu_selection = None
    /\ watchers.menu_selection = Some(Pair(15, 15))

----------------------------------------------------------------------------
(* The first attached tick *)

\* C19: the tick that primes the run-phase watcher, the first attached one,
\* leaves every primed pair with old = current, start(), split() and reset()
\* false, and sends nothing, whatever the timer's phase.
C19_FirstAttachedTickSilent ==
    [][(watchers.state = None /\ reads'.attached) =>
         /\ \A f \in DOMAIN watchers :
               watchers'[f] # None => watchers'[f][1].old = watchers'[f][1].current
         /\ ~State_start(Self)'
         /\ ~State_split(Self)'
         /\ ~State_reset(Self)'
         /\ emitted' = <<>>]_vars

\* a tick that read the armed trigger and run phase 6 with the timer running,
\* every pair still flat
C19_Witness ==
    /\ reads.attached
    /\ queried[1] = "Running"
    /\ watchers.state = Some(Pair(6, 6))
    /\ watchers.menu_trigger = Some(Pair(3, 3))
    /\ watchers.levelid = Some(Pair("Bonus1", "Bonus1"))
    /\ emitted = <<>>

----------------------------------------------------------------------------
(* Concurrent invocations *)

\* what one whole tick makes of the state an invocation found
WholeTick(snap, attached, registered, rd) ==
    LET s1 == IF snap.settings = None THEN Some(registered) ELSE snap.settings
        w == State_update(snap.watchers, rd)
        self == [settings |-> s1, watchers |-> w]
        q2 == IF snap.timer = "Running" THEN NoMove ELSE snap.timer
        sig1 == RunningBranch(self, snap.timer, q2)
        q3 == TimerReact(snap.timer, sig1)
        sig2 == NotRunningBranch(self, q3)
    IN  IF attached
        THEN [settings |-> s1, watchers |-> w, timer |-> TimerReact(q3, sig2),
              emitted |-> sig1 \o sig2]
        ELSE [settings |-> s1, watchers |-> snap.watchers, timer |-> snap.timer,
              emitted |-> <<>>]

\* the lock is held by exactly the thread that is inside update()
MutualExclusion ==
    \A t \in Threads : (inv[t].pc \in Inside) <=> (lock = Some(t))

\* the thread that evaluates the predicates does so on a bank refreshed
\* entirely from the state it found when it took the lock
EvaluatesWholeBank ==
    \A t \in Threads :
        inv[t].pc \in {"running", "notrunning"} =>
            watchers = State_update(inv[t].snap[1].watchers, reads.rd)

\* a thread that is not the holder changes nothing of the tick state
OnlyHolderWrites ==
    \A t \in Threads :
        (inv[t].pc \notin Inside /\ inv'[t].pc \notin Inside) =>
            (inv'[t] # inv[t] => UNCHANGED <<settings, watchers, timer>>)

\* an invocation that returns leaves what one whole tick would have left
ReturnsWholeTick ==
    (lock # None /\ lock' = None) =>
        LET snap == inv[lock[1]].snap[1]
            tick == WholeTick(snap, reads'.attached, settings'[1], reads'.rd)
        IN  /\ settings' = tick.settings
            /\ watchers' = tick.watchers
            /\ timer' = tick.timer
            /\ emitted' = tick.emitted

\* C12: the lock is held for the whole tick by one invocation at a time, the
\* predicates are evaluated on a bank refreshed entirely by the holder, every
\* invocation returns leaving what one whole tick makes of the state it found
\* when it took the lock, and a lock that is taken is released again, also on
\* the early return.
C12_TicksSerialized ==
    /\ [](MutualExclusion /\ EvaluatesWholeBank)
    /\ [][OnlyHolderWrites /\ ReturnsWholeTick]_vars
    /\ (lock # None ~> lock = None)

\* thread 2 spins on the lock while thread 1 is half way through the refresh:
\* the run phase is new, the menu trigger is still the one it found
C12_Witness ==
    /\ lock = Some(1)
    /\ inv[1].pc = "trigger"
    /\ inv[2].pc = "lock"
    /\ watchers.state # inv[1].snap[1].watchers.state
    /\ watchers.menu_trigger = inv[1].snap[1].watchers.menu_trigger
    /\ watchers.menu_trigger = Some(Pair(3, 2))

====
